---- MODULE Spec2Model ----
(***************************************************************************)
(* OAuth 2.0 Authorization-Code-with-PKCE flow of the Beltic wizard        *)
(* (utils/oauth.ts): the loopback callback listener, the race between the  *)
(* callback and the 300 s timer, the token exchange and the mapping of     *)
(* failures to user-facing message categories; the part of the session     *)
(* bootstrapper (run.ts, authenticateWithKya) that follows the flow; and   *)
(* the credential store (lib/credentials.ts).                              *)
(*                                                                         *)
(* Strings that the code inspects (query parameters, error messages) are   *)
(* sequences of text pieces, so that String.includes is a search through   *)
(* the pieces and concatenation is \o.  A query parameter is a record      *)
(* [has, val]: URLSearchParams.get returns null for a missing parameter    *)
(* and the (possibly empty) string otherwise.                              *)
(*                                                                         *)
(* One step of the model is one turn of the Node event loop: a callback    *)
(* (request handler, timer, I/O completion) together with the promise      *)
(* continuations it makes runnable, which Node runs to the next await      *)
(* before any other callback.                                              *)
(***************************************************************************)
EXTENDS Integers, Sequences, FiniteSets, TLC

\* ---------------------------------------------------------------- bounds
\* HTTP requests the listener serves during one flow
MaxRequests == 3
\* the clock runs from StartMs in steps of TickMs, MaxTicks times at most
MaxTicks == 4
\* lines of the .gitignore an updateGitignore call can find
MaxLines == 4

\* ------------------------------------------------------------- constants
OAUTH_PORT == 8239

\* ------------------------------------------------------------ parameters
Null == [has |-> FALSE, val |-> <<>>]
Some(s) == [has |-> TRUE, val |-> s]

\* JavaScript truthiness of string | null: null and "" are falsy
Truthy(p) == p.has /\ p.val # <<>>

\* String.prototype.includes, on strings given as sequences of pieces
Includes(msg, needle) == \E i \in 1..Len(msg) : msg[i] = needle

\* values of the state the flow can generate (generateState, never empty)
GenStates == { <<"s1">>, <<"s2">> }

\* values of the PKCE verifier the flow can generate (generateCodeVerifier)
GenVerifiers == { <<"v1">>, <<"v2">> }

\* generateCodeChallenge: base64url(SHA-256(verifier)), a one-to-one map of
\* the verifiers of the model that returns none of them
Sha256(v) == <<"S256:">> \o v

\* values a request can carry in ?state=, ?code= and ?error=
StateVals == { <<>>, <<"s1">>, <<"s2">> }
CodeVals == { <<>>, <<"c1">>, <<"c2">> }
ErrorVals == { <<>>, <<"access_denied">>, <<"access_denied", "_by_policy">>,
               <<"server_error">>, <<"timeout">>, <<"State mismatch">> }

Opt(S) == { Null } \cup { Some(s) : s \in S }

\* GET /callback?code=&error=&state=
CallbackRequests ==
  [ path : {"/callback"}, code : Opt(CodeVals), error : Opt(ErrorVals),
    state : Opt(StateVals), signup : {FALSE} ]

\* GET /authorize and GET /authorize?signup=true
AuthorizeRequests ==
  [ path : {"/authorize"}, code : {Null}, error : {Null}, state : {Null},
    signup : BOOLEAN ]

\* any other path
OtherRequests ==
  [ path : {"/favicon.ico"}, code : {Null}, error : {Null}, state : {Null},
    signup : {FALSE} ]

Requests == CallbackRequests \cup AuthorizeRequests \cup OtherRequests

NoRequest == [ path |-> "", code |-> Null, error |-> Null, state |-> Null,
               signup |-> FALSE ]

\* ------------------------------------------------------- error messages
TimeoutMsg == <<"Authorization ", "timed out">>
StateMismatchMsg == <<"State mismatch", ": OAuth callback state does not match expected value">>
NoCodeMsg == <<"No authorization code in callback URL">>
OAuthErrorMsg(e) == <<"OAuth error: ">> \o e
FreePortAdvice ==
  " is already in use. Please close the application using this port and try again."
PortInUseMsg == << "Port ", ToString(OAUTH_PORT), FreePortAdvice >>
ListenErrorMsg == <<"listen EACCES">>
\* thrown by axios.post and by OAuthTokenResponseSchema.parse
TokenHttpErrorMsg == <<"Request failed with status code ", "500">>
TokenSchemaErrorMsg == <<"access_token", ": Required">>

NoError == <<>>

VARIABLES
  pc,               \* position of performOAuthFlow / the process
  nodeEnvTest,      \* process.env.NODE_ENV === 'test'
  signupConfigured, \* config.signupUrl is set
  expectedState,    \* const state = generateState()
  server,           \* "none" | "listening" | "closed" (server.close() called)
  callbackAssigned, \* callbackResolve / callbackReject have been assigned
  cbPromise,        \* the promise made by waitForCallback()
  race,             \* the promise made by Promise.race
  timer,            \* "unset" | "armed" | "fired"
  tokenRequests,    \* POSTs sent to the token endpoint, in order
  served,           \* number of requests the listener has handled
  lastReq,          \* the request handled last
  lastResp,         \* the response written to it
  settledBy,        \* what settled the race: "none" | "callback" | "timer"
  error,            \* the Error caught at line 340 (its message)
  logged,           \* category of the message shown by the catch block
  result,           \* token returned by performOAuthFlow
  urlPrinted,       \* the local authorize URL has been logged
  browser,          \* outcome of openUrl: "none" | "opened" | "failed"
  codeVerifier,     \* const codeVerifier = generateCodeVerifier()
  authUrlChallenge, \* the code_challenge parameter of authUrl
  listenError,      \* code of the server's 'error' event: "none" | "EADDRINUSE" | "EACCES"
  tokenAnswer,      \* the token endpoint's answer: "none" or one of TokenAnswers
  boot,             \* position of authenticateWithKya after the login prompt
  fetchRequests,    \* bearer tokens of the GET /api/developers/me requests sent
  bootError,        \* message of the error caught by authenticateWithKya
  notice,           \* the 'session has expired' warning has been shown
  prompted,         \* the login prompt has been shown
  returned,         \* credentials returned by authenticateWithKya: [has, val]
  startFile,        \* the credential file as the run found it
  startNow,         \* Date.now() when the run started
  wizardStep,       \* number of steps of runWizard started after authentication
  installDirTouched, \* a step has written into the install directory
  gitignore,        \* <installDir>/.gitignore: [exists, lines]
  gitBefore,        \* .gitignore as the last updateGitignore call found it
  gitReturn,        \* what the last updateGitignore call returned
  gitCalls,         \* calls of updateGitignore so far: "none" | "one" | "more"
  dirMode,          \* mode of ~/.beltic, "none" when it does not exist
  credFile,         \* ~/.beltic/credentials.json: [exists, text]
  fileMode,         \* mode of the credential file, "none" when it does not exist
  now,              \* Date.now(), epoch milliseconds
  lastSaved,        \* the value last passed to saveCredentials: [has, val]
  issued,           \* expires_in and time of the last token saved: [has, n, t]
  loaded,           \* result of the last loadCredentials() on the current file
  valid             \* result of the last hasValidCredentials() on the current
                    \* file and clock: "none" | "true" | "false"

vars == << pc, nodeEnvTest, signupConfigured, expectedState, server,
           callbackAssigned, cbPromise, race, timer, tokenRequests, served,
           lastReq, lastResp, settledBy, error, logged, result,
           urlPrinted, browser, codeVerifier, authUrlChallenge, listenError,
           tokenAnswer, boot, fetchRequests, bootError, notice, prompted,
           returned, startFile, startNow, wizardStep, installDirTouched,
           gitignore, gitBefore, gitReturn, gitCalls, dirMode, credFile, fileMode, now, lastSaved, issued, loaded,
           valid >>

\* the state of performOAuthFlow and of its listener
flowVars == << pc, nodeEnvTest, signupConfigured, expectedState, server,
               callbackAssigned, cbPromise, race, timer, tokenRequests, served,
               lastReq, lastResp, settledBy, error, logged, result,
               urlPrinted, browser, codeVerifier, authUrlChallenge,
               listenError, tokenAnswer >>

\* the state of authenticateWithKya
bootVars == << boot, fetchRequests, bootError, notice, prompted, returned,
              startFile, startNow, wizardStep, installDirTouched, gitignore,
              gitBefore, gitReturn, gitCalls >>

\* .gitignore and what updateGitignore did to it
gitVars == << gitignore, gitBefore, gitReturn, gitCalls >>

\* what runWizard and the start of authenticateWithKya set
runVars == << notice, prompted, startFile, startNow, wizardStep,
             installDirTouched, gitignore, gitBefore, gitReturn, gitCalls >>

\* the credential directory and file, the clock, and what was observed
storeVars == << dirMode, credFile, fileMode, now, lastSaved, issued, loaded,
                valid >>

\* fixed once performOAuthFlow has computed them (lines 266-282)
pkceVars == << codeVerifier, authUrlChallenge >>

\* no .gitignore in the install directory
NoGitignore == [ exists |-> FALSE, lines |-> << <<>> >> ]

Pending == [st |-> "pending", val |-> <<>>]
NoResp == [status |-> 0, body |-> "", location |-> ""]
NoToken == [has |-> FALSE, access_token |-> <<>>]


\* ------------------------------------------------- the credential store
\* JavaScript values: undefined, strings, numbers and null
Undef == [def |-> FALSE, t |-> "undefined", s |-> <<>>, n |-> 0]
Str(x) == [def |-> TRUE, t |-> "string", s |-> x, n |-> 0]
Num(k) == [def |-> TRUE, t |-> "number", s |-> <<>>, n |-> k]
JsNull == [def |-> TRUE, t |-> "null", s |-> <<>>, n |-> 0]

\* truthiness of a value: undefined, null, "" and 0 are falsy
JsTruthy(v) ==
  /\ v.def
  /\ v.t # "null"
  /\ (v.t = "string" => v.s # <<>>)
  /\ (v.t = "number" => v.n # 0)

\* the clock: one tick is 150 s; the 5 minute buffer of hasValidCredentials
TickMs == 150 * 1000
StartMs == 2 * TickMs
BufferMs == 5 * 60 * 1000
Clock == { StartMs + k * TickMs : k \in 0..MaxTicks }

\* the keys of StoredCredentials, in the order of the object literal
CredKeys == << "accessToken", "refreshToken", "developerId", "email", "name",
               "expiresAt" >>

IsEmail(str) == Len(str) = 3 /\ str[2] = "@"

\* values of type StoredCredentials that conform to StoredCredentialsSchema
CredValues ==
  [ accessToken : { Str(<<"tok_1">>), Str(<<"tok_2">>) },
    refreshToken : { Undef, Str(<<"refresh_1">>) },
    developerId : { Str(<<"dev_1">>) },
    email : { Str(<<"dev", "@", "example.com">>) },
    name : { Undef, Str(<<>>), Str(<<"Ada">>) },
    expiresAt : { Undef } \cup { Num(k * TickMs) : k \in 0..(MaxTicks + 4) } ]

\* JSON.stringify(credentials, null, 2): the members whose value is not
\* undefined, in key order
Stringify(c) ==
  LET keys == SelectSeq(CredKeys, LAMBDA k : c[k].def)
  IN  [ raw |-> "json", top |-> "object",
        pairs |-> [ i \in 1..Len(keys) |-> << keys[i], c[keys[i]] >> ] ]

\* texts a credential file can hold besides a stringified object
EmptyText == [ raw |-> "", top |-> "", pairs |-> <<>> ]
GarbageText == [ raw |-> "{not json", top |-> "", pairs |-> <<>> ]
NullText == [ raw |-> "json", top |-> "null", pairs |-> <<>> ]
ObjectText(pairs) == [ raw |-> "json", top |-> "object", pairs |-> pairs ]

\* objects that do not conform to the schema
BadObjectTexts ==
  { ObjectText(<<>>),
    ObjectText(<< <<"accessToken", Str(<<"tok_1">>)>>,
                  <<"developerId", Str(<<"dev_1">>)>>,
                  <<"email", Str(<<"not an email">>)>> >>),
    ObjectText(<< <<"accessToken", Str(<<"tok_1">>)>>,
                  <<"developerId", Str(<<"dev_1">>)>>,
                  <<"email", Str(<<"dev", "@", "example.com">>)>>,
                  <<"expiresAt", JsNull>> >>),
    ObjectText(<< <<"accessToken", Num(1)>>,
                  <<"developerId", Str(<<"dev_1">>)>>,
                  <<"email", Str(<<"dev", "@", "example.com">>)>> >>) }

NoFile == [ exists |-> FALSE, text |-> EmptyText ]
FileOf(text) == [ exists |-> TRUE, text |-> text ]

\* the member of a parsed object, undefined when the key is missing
Member(pairs, k) ==
  IF \E i \in 1..Len(pairs) : pairs[i][1] = k
    THEN pairs[CHOOSE i \in 1..Len(pairs) : pairs[i][1] = k][2]
    ELSE Undef

\* z.string() / z.string().optional() / z.number().optional()
IsString(v) == v.def /\ v.t = "string"
IsOptString(v) == ~v.def \/ IsString(v)
IsOptNumber(v) == ~v.def \/ v.t = "number"

\* StoredCredentialsSchema accepts the object
SchemaAccepts(o) ==
  /\ IsString(o.accessToken)
  /\ IsOptString(o.refreshToken)
  /\ IsString(o.developerId)
  /\ IsString(o.email) /\ IsEmail(o.email.s)
  /\ IsOptString(o.name)
  /\ IsOptNumber(o.expiresAt)

NullResult == [ kind |-> "null", val |-> [ k \in {} |-> Undef ] ]

\* The try block of loadCredentials: readFileSync, JSON.parse and
\* StoredCredentialsSchema.parse; kind "threw" when one of them throws
ReadAndParse(file) ==
  LET text == file.text
      obj == [ k \in { CredKeys[i] : i \in 1..Len(CredKeys) } |->
                 Member(text.pairs, k) ]
  IN  IF text.raw # "json" THEN [ kind |-> "threw", val |-> NullResult.val ]
      ELSE IF text.top # "object" \/ ~SchemaAccepts(obj)
        THEN [ kind |-> "threw", val |-> NullResult.val ]
      ELSE [ kind |-> "creds", val |-> obj ]

\* Variant: the parse is not guarded by the try block
LoadCredentialsNoCatch(file) ==
  IF ~file.exists THEN NullResult ELSE ReadAndParse(file)

\* loadCredentials(): null when the file is missing or anything throws
LoadCredentials(file) ==
  IF ~file.exists THEN NullResult
  ELSE IF ReadAndParse(file).kind = "threw" THEN NullResult
  ELSE ReadAndParse(file)

\* hasValidCredentials() at time t
HasValidCredentials(file, t) ==
  LET c == LoadCredentials(file)
  IN  IF c.kind # "creds" THEN FALSE
      ELSE IF ~JsTruthy(c.val.expiresAt) THEN TRUE
      ELSE ~(t >= c.val.expiresAt.n - BufferMs)

\* ensureConfigDir(): mkdir with mode 0700 only when the directory is missing
EnsureConfigDir(mode) == IF mode = "none" THEN "0700" ELSE mode

\* fs.writeFileSync(path, data, { mode: 0o600 }): the mode is given to a file
\* that the call creates; an existing file keeps its mode
WriteMode(mode) == IF mode = "none" THEN "0600" ELSE mode

\* Variant: undefined members are written as null
StringifyNulls(c) ==
  ObjectText([ i \in 1..Len(CredKeys) |->
                 << CredKeys[i],
                    IF c[CredKeys[i]].def THEN c[CredKeys[i]] ELSE JsNull >> ])

\* the text saveCredentials writes
SavedText(c) == Stringify(c)

\* saveCredentials(credentials)
SaveCredentials(c) ==
  /\ dirMode' = EnsureConfigDir(dirMode)
  /\ credFile' = FileOf(SavedText(c))
  /\ fileMode' = WriteMode(fileMode)
  /\ lastSaved' = [ has |-> TRUE, val |-> c ]
  /\ loaded' = [ kind |-> "none", val |-> NullResult.val ]
  /\ valid' = "none"

\* Variant: expires_in is added to the time without the conversion to ms
BuildCredentialsNoMs(token, developer, t) ==
  [ accessToken |-> token.access_token,
    refreshToken |-> token.refresh_token,
    developerId |-> developer.id,
    email |-> developer.email,
    name |-> developer.name,
    expiresAt |-> IF JsTruthy(token.expires_in)
                    THEN Num(t + token.expires_in.n)
                    ELSE Undef ]

\* const credentials: StoredCredentials = { ... } of authenticateWithKya
BuildCredentials(token, developer, t) ==
  [ accessToken |-> token.access_token,
    refreshToken |-> token.refresh_token,
    developerId |-> developer.id,
    email |-> developer.email,
    name |-> developer.name,
    expiresAt |-> IF JsTruthy(token.expires_in)
                    THEN Num(t + token.expires_in.n * 1000)
                    ELSE Undef ]

\* the developer returned by fetchDeveloperData
Developer == [ id |-> Str(<<"dev_1">>),
               email |-> Str(<<"dev", "@", "example.com">>),
               name |-> Str(<<"Ada">>) ]

NoLoad == [ kind |-> "none", val |-> NullResult.val ]
NoSaved == [ has |-> FALSE, val |-> NullResult.val ]
NoIssue == [ has |-> FALSE, n |-> 0, t |-> 0 ]


\* ------------------------------------------------ the request handler
\* The /callback branch of the request handler: the response it writes and
\* the settlement it asks of the callback promise (callbackResolve(code) or
\* callbackReject(new Error(...))).  The error parameter is looked at first,
\* then the state, then the code.
\* Variant: the state is compared only when the request carries one
CallbackVerdictLaxState(req, expected) ==
  IF Truthy(req.error)
    THEN [ status |-> IF req.error.val = <<"access_denied">> THEN 200 ELSE 400,
           body |-> "Authorization failed.",
           settle |-> "rejected", val |-> OAuthErrorMsg(req.error.val) ]
  ELSE IF Truthy(req.state) /\ req.state.val # expected
    THEN [ status |-> 400,
           body |-> "Invalid state parameter. Authorization failed.",
           settle |-> "rejected", val |-> StateMismatchMsg ]
  ELSE IF Truthy(req.code)
    THEN [ status |-> 200,
           body |-> "Authorization successful! Return to your terminal.",
           settle |-> "resolved", val |-> req.code.val ]
  ELSE [ status |-> 400,
         body |-> "Invalid request - no authorization code received.",
         settle |-> "rejected", val |-> NoCodeMsg ]

\* Variant: the handler resolves with the state where it should pass the code
CallbackVerdictWrongValue(req, expected) ==
  IF Truthy(req.error)
    THEN [ status |-> IF req.error.val = <<"access_denied">> THEN 200 ELSE 400,
           body |-> "Authorization failed.",
           settle |-> "rejected", val |-> OAuthErrorMsg(req.error.val) ]
  ELSE IF ~Truthy(req.state) \/ req.state.val # expected
    THEN [ status |-> 400,
           body |-> "Invalid state parameter. Authorization failed.",
           settle |-> "rejected", val |-> StateMismatchMsg ]
  ELSE IF Truthy(req.code)
    THEN [ status |-> 200,
           body |-> "Authorization successful! Return to your terminal.",
           settle |-> "resolved", val |-> req.state.val ]
  ELSE [ status |-> 400,
         body |-> "Invalid request - no authorization code received.",
         settle |-> "rejected", val |-> NoCodeMsg ]

CallbackVerdict(req, expected) ==
  IF Truthy(req.error)
    THEN [ status |-> IF req.error.val = <<"access_denied">> THEN 200 ELSE 400,
           body |-> IF req.error.val = <<"access_denied">>
                      THEN "Authorization cancelled."
                      ELSE "Authorization failed.",
           settle |-> "rejected", val |-> OAuthErrorMsg(req.error.val) ]
  ELSE IF ~Truthy(req.state) \/ req.state.val # expected
    THEN [ status |-> 400,
           body |-> "Invalid state parameter. Authorization failed.",
           settle |-> "rejected", val |-> StateMismatchMsg ]
  ELSE IF Truthy(req.code)
    THEN [ status |-> 200,
           body |-> "Authorization successful! Return to your terminal.",
           settle |-> "resolved", val |-> req.code.val ]
  ELSE [ status |-> 400,
         body |-> "Invalid request - no authorization code received.",
         settle |-> "rejected", val |-> NoCodeMsg ]

\* Variant: signup=true redirects to the signup URL whether or not one is
\* configured
RespondSignupAlways(req, expected, signupCfg) ==
  IF req.path = "/authorize"
    THEN [ status |-> 302, body |-> "",
           location |-> IF req.signup THEN "signupUrl" ELSE "authUrl" ]
  ELSE IF req.path = "/callback"
    THEN [ status |-> CallbackVerdict(req, expected).status,
           body |-> CallbackVerdict(req, expected).body, location |-> "" ]
  ELSE [ status |-> 404, body |-> "", location |-> "" ]

\* The response the handler writes to a request
Respond(req, expected, signupCfg) ==
  IF req.path = "/authorize"
    THEN [ status |-> 302, body |-> "",
           location |-> IF req.signup /\ signupCfg THEN "signupUrl" ELSE "authUrl" ]
  ELSE IF req.path = "/callback"
    THEN [ status |-> CallbackVerdict(req, expected).status,
           body |-> CallbackVerdict(req, expected).body, location |-> "" ]
  ELSE [ status |-> 404, body |-> "", location |-> "" ]

\* ------------------------------------------------------ the orchestrator
\* The if / else-if chain of the catch block: which message is shown
Category(msg) ==
  IF Includes(msg, "timeout") THEN "timeout"
  ELSE IF Includes(msg, "State mismatch") THEN "security"
  ELSE IF Includes(msg, "access_denied") THEN "cancelled"
  ELSE "failed"

\* Variant: the catch block aborts without closing the server
CatchBlockLeak(msg) ==
  /\ error' = msg
  /\ logged' = Category(msg)
  /\ pc' = "aborted"
  /\ UNCHANGED << server, tokenRequests, result >>

\* catch (e): stop the spinner, close the server, show the message, abort()
\* (abort calls process.exit, so the throw after it is not reached)
CatchBlock(msg) ==
  /\ server' = "closed"
  /\ error' = msg
  /\ logged' = Category(msg)
  /\ pc' = "aborted"
  /\ UNCHANGED << tokenRequests, result >>

\* Variant: a fresh verifier is generated for the exchange
StartExchangeNewVerifier(code) ==
  /\ tokenRequests' = Append(tokenRequests,
       [code |-> code,
        code_verifier |-> CHOOSE v \in GenVerifiers : v # codeVerifier])
  /\ pc' = "exchanging"
  /\ UNCHANGED << server, error, logged, result >>

\* const token = await exchangeCodeForToken(code, codeVerifier, config):
\* the POST is sent and the function waits for the answer
StartExchange(code) ==
  /\ tokenRequests' = Append(tokenRequests,
       [code |-> code, code_verifier |-> codeVerifier])
  /\ pc' = "exchanging"
  /\ UNCHANGED << server, error, logged, result >>

\* Variant: the token is returned with the server left listening
ReturnTokenLeak(tok) ==
  /\ result' = [has |-> TRUE, access_token |-> tok]
  /\ pc' = "returned"
  /\ UNCHANGED << server, error, logged, tokenRequests >>

\* The token arrived: server.close(), stop the spinner, return token
ReturnToken(tok) ==
  /\ server' = "closed"
  /\ result' = [has |-> TRUE, access_token |-> tok]
  /\ pc' = "returned"
  /\ UNCHANGED << error, logged, tokenRequests >>

\* Variant: the exchange is attempted whatever the race yielded
AfterRaceAlwaysExchange(r) == StartExchange(r.val)

\* The continuation of `await Promise.race([...])` once the race is settled
AfterRace(r) ==
  IF r.st = "resolved" THEN StartExchange(r.val) ELSE CatchBlock(r.val)

\* Variant: a later resolve / reject overwrites the settlement
SettleAlways(p, st, val) == [st |-> st, val |-> val]

\* A promise is settled once: resolve / reject of a settled promise does nothing
SettleOnce(p, st, val) ==
  IF p.st = "pending" THEN [st |-> st, val |-> val] ELSE p

\* ---------------------------------------------------------------- Init
Init ==
  /\ pc = "start"
  /\ nodeEnvTest \in BOOLEAN
  /\ signupConfigured \in BOOLEAN
  /\ expectedState \in GenStates
  /\ server = "none"
  /\ callbackAssigned = FALSE
  /\ cbPromise = Pending
  /\ race = Pending
  /\ timer = "unset"
  /\ tokenRequests = <<>>
  /\ served = 0
  /\ lastReq = NoRequest
  /\ lastResp = NoResp
  /\ settledBy = "none"
  /\ error = NoError
  /\ logged = "none"
  /\ result = NoToken
  /\ urlPrinted = FALSE
  /\ browser = "none"
  /\ codeVerifier \in GenVerifiers
  /\ authUrlChallenge = Sha256(codeVerifier)
  /\ listenError = "none"
  /\ tokenAnswer = "none"
  /\ boot = "oauth"
  /\ fetchRequests = <<>>
  /\ bootError = NoError
  /\ notice = FALSE
  /\ prompted = TRUE
  /\ returned = NoSaved
  /\ startFile = NoFile
  /\ startNow = StartMs
  /\ wizardStep = 0
  /\ installDirTouched = FALSE
  /\ gitignore = NoGitignore
  /\ gitBefore = NoGitignore
  /\ gitReturn = FALSE
  /\ gitCalls = "none"
  /\ dirMode = "none"
  /\ credFile = NoFile
  /\ fileMode = "none"
  /\ now = StartMs
  /\ lastSaved = NoSaved
  /\ issued = NoIssue
  /\ loaded = NoLoad
  /\ valid = "none"

\* ------------------------------------------------------------- actions
\* startCallbackServer resolves ('listening'); the URL is logged; in the
\* test environment openUrl is skipped and the race is set up at once,
\* otherwise the function suspends in `await openUrl(urlToOpen)`.
BindOk ==
  /\ pc = "start"
  /\ boot = "oauth"
  /\ server' = "listening"
  /\ urlPrinted' = TRUE
  /\ IF nodeEnvTest
       THEN /\ pc' = "awaiting"
            /\ callbackAssigned' = TRUE
            /\ timer' = "armed"
       ELSE /\ pc' = "opening"
            /\ UNCHANGED << callbackAssigned, timer >>
  /\ UNCHANGED << nodeEnvTest, signupConfigured, expectedState, cbPromise, race,
                  tokenRequests, served, lastReq, lastResp, settledBy, error,
                  logged, result, browser, pkceVars, listenError, tokenAnswer,
                  bootVars, storeVars >>

\* Variant: every listen error is reported with its own message
ListenRejectionGeneric(code) == ListenErrorMsg

\* The rejection of startCallbackServer for an 'error' event with this code
ListenRejection(code) ==
  IF code = "EADDRINUSE" THEN PortInUseMsg ELSE ListenErrorMsg

\* server.on('error'): startCallbackServer rejects, performOAuthFlow throws
\* before the try block
BindFail(inUse) ==
  /\ pc = "start"
  /\ boot = "oauth"
  /\ pc' = "threw"
  /\ listenError' = IF inUse THEN "EADDRINUSE" ELSE "EACCES"
  /\ error' = ListenRejection(listenError')
  /\ UNCHANGED << nodeEnvTest, signupConfigured, expectedState, server,
                  callbackAssigned, cbPromise, race, timer, tokenRequests,
                  served, lastReq, lastResp, settledBy, logged, result,
                  urlPrinted, browser, pkceVars, tokenAnswer, bootVars,
                  storeVars >>

\* Variant: a failure of the launcher reaches the catch block
OpenUrlDoneThrows(ok) ==
  /\ pc = "opening"
  /\ browser' = IF ok THEN "opened" ELSE "failed"
  /\ IF ok
       THEN /\ callbackAssigned' = TRUE
            /\ timer' = "armed"
            /\ pc' = "awaiting"
            /\ UNCHANGED << server, error, logged >>
       ELSE /\ server' = "closed"
            /\ error' = << "spawn open ENOENT" >>
            /\ logged' = "failed"
            /\ pc' = "aborted"
            /\ UNCHANGED << callbackAssigned, timer >>
  /\ UNCHANGED << nodeEnvTest, signupConfigured, expectedState,
                  cbPromise, race, tokenRequests, served, lastReq, lastResp,
                  settledBy, result, urlPrinted, pkceVars,
                  listenError, tokenAnswer, bootVars, storeVars >>

\* openUrl returns (a failure is swallowed); the spinner starts,
\* waitForCallback() assigns callbackResolve / callbackReject and the
\* 300 s timer is armed
OpenUrlDone(ok) ==
  /\ pc = "opening"
  /\ browser' = IF ok THEN "opened" ELSE "failed"
  /\ callbackAssigned' = TRUE
  /\ timer' = "armed"
  /\ pc' = "awaiting"
  /\ UNCHANGED << nodeEnvTest, signupConfigured, expectedState, server,
                  cbPromise, race, tokenRequests, served, lastReq, lastResp,
                  settledBy, error, logged, result, urlPrinted, pkceVars,
                  listenError, tokenAnswer, bootVars, storeVars >>

\* callbackResolve / callbackReject called by the handler, and what follows
Deliver(v) ==
  /\ cbPromise' = SettleOnce(cbPromise, v.settle, v.val)
  /\ race' = SettleOnce(race, cbPromise'.st, cbPromise'.val)
  /\ IF race.st = "pending"
       THEN /\ settledBy' = "callback"
            /\ AfterRace(race')
       ELSE UNCHANGED << settledBy, pc, server, tokenRequests, error, logged,
                         result >>

\* The listener handles one request.  A /callback request that arrives
\* before waitForCallback() has run finds callbackResolve and callbackReject
\* undefined: the response has been written, the call throws a TypeError in
\* the 'request' listener and the process dies of the uncaught exception.
Request(req) ==
  /\ server = "listening"
  /\ pc \in {"opening", "awaiting", "exchanging"}
  /\ served < MaxRequests
  /\ served' = served + 1
  /\ lastReq' = req
  /\ lastResp' = Respond(req, expectedState, signupConfigured)
  /\ IF req.path # "/callback"
       THEN UNCHANGED << pc, server, cbPromise, race, tokenRequests, settledBy,
                         error, logged, result >>
     ELSE IF ~callbackAssigned
       THEN /\ pc' = "crashed"
            /\ UNCHANGED << server, cbPromise, race, tokenRequests, settledBy,
                            error, logged, result >>
     ELSE Deliver(CallbackVerdict(req, expectedState))
  /\ UNCHANGED << nodeEnvTest, signupConfigured, expectedState,
                  callbackAssigned, timer, urlPrinted, browser, pkceVars,
                  listenError, tokenAnswer, bootVars, storeVars >>

\* setTimeout(() => reject(new Error('Authorization timed out')), 300_000).
\* The timer is never cleared; it is gone only when the process has exited.
TimerFires ==
  /\ timer = "armed"
  /\ pc \in {"awaiting", "exchanging", "returned"}
  /\ boot \notin {"aborted", "exited"}
  /\ timer' = "fired"
  /\ race' = SettleOnce(race, "rejected", TimeoutMsg)
  /\ IF race.st = "pending"
       THEN /\ settledBy' = "timer"
            /\ AfterRace(race')
       ELSE UNCHANGED << settledBy, pc, server, tokenRequests, error, logged,
                         result >>
  /\ UNCHANGED << nodeEnvTest, signupConfigured, expectedState,
                  callbackAssigned, cbPromise, served, lastReq, lastResp,
                  urlPrinted, browser, pkceVars, listenError, tokenAnswer,
                  bootVars, storeVars >>

\* The token endpoint answers: a body with access_token, a body without it
\* (OAuthTokenResponseSchema.parse throws), or a failed request (axios throws)
TokenAnswers == { "ok", "no_access_token", "http_error" }

\* response.data for the two answers that carry a body
TokenBody(ans) ==
  [ access_token |-> IF ans = "ok" THEN Str(<<"tok_1">>) ELSE Undef,
    expires_in |-> Undef,
    refresh_token |-> Undef ]

\* Variant: access_token is optional
TokenSchemaLax(body) ==
  /\ IsOptString(body.access_token)
  /\ IsOptNumber(body.expires_in)
  /\ IsOptString(body.refresh_token)

\* OAuthTokenResponseSchema accepts the body
TokenSchemaAccepts(body) ==
  /\ IsString(body.access_token)
  /\ IsOptNumber(body.expires_in)
  /\ IsOptString(body.refresh_token)

TokenResponse(ans) ==
  /\ pc = "exchanging"
  /\ tokenAnswer' = ans
  /\ IF ans = "http_error" THEN CatchBlock(TokenHttpErrorMsg)
     ELSE IF TokenSchemaAccepts(TokenBody(ans))
       THEN ReturnToken(TokenBody(ans).access_token.s)
     ELSE CatchBlock(TokenSchemaErrorMsg)
  /\ UNCHANGED << nodeEnvTest, signupConfigured, expectedState,
                  callbackAssigned, cbPromise, race, timer, served, lastReq,
                  lastResp, settledBy, urlPrinted, browser, pkceVars,
                  listenError, bootVars, storeVars >>

\* ------------------------------------------- authenticateWithKya, after
\* the user has agreed to log in
FetchErrorMsg == << "Failed to fetch developer data" >>

\* the token response as authenticateWithKya reads it
TokenOf(res) ==
  [ access_token |-> Str(res.access_token),
    expires_in |-> Undef,
    refresh_token |-> Undef ]

\* performBelticOAuth() returned: fetchDeveloperData sends
\* GET /api/developers/me with the access token as bearer
FetchDeveloper ==
  /\ pc = "returned"
  /\ boot = "oauth"
  /\ boot' = "fetching"
  /\ fetchRequests' = Append(fetchRequests, result.access_token)
  /\ UNCHANGED << flowVars, storeVars, bootError, returned, runVars >>

\* performBelticOAuth() threw (the listener could not bind): the catch block
\* shows "Failed to authenticate: <message>" and aborts
BootCatch ==
  /\ pc = "threw"
  /\ boot = "oauth"
  /\ boot' = "aborted"
  /\ bootError' = error
  /\ UNCHANGED << flowVars, storeVars, fetchRequests, returned, runVars >>

\* Variant: the credentials are saved whatever the identity endpoint answers
FetchResponseSaveFirst(ok) ==
  /\ boot = "fetching"
  /\ SaveCredentials(BuildCredentials(TokenOf(result), Developer, now))
  /\ IF ok
       THEN /\ returned' = [ has |-> TRUE,
                             val |-> BuildCredentials(TokenOf(result),
                                                      Developer, now) ]
            /\ boot' = "done"
            /\ UNCHANGED bootError
       ELSE /\ boot' = "aborted"
            /\ bootError' = FetchErrorMsg
            /\ UNCHANGED returned
  /\ UNCHANGED << flowVars, fetchRequests, runVars, now, issued >>

\* The identity endpoint answers: the credentials are built and saved, or
\* apiRequest throws and the catch block aborts
FetchResponse(ok) ==
  /\ boot = "fetching"
  /\ IF ok
       THEN /\ SaveCredentials(BuildCredentials(TokenOf(result), Developer,
                                                 now))
            /\ returned' = [ has |-> TRUE,
                             val |-> BuildCredentials(TokenOf(result),
                                                      Developer, now) ]
            /\ boot' = "done"
            /\ UNCHANGED << bootError, now, issued >>
       ELSE /\ boot' = "aborted"
            /\ bootError' = FetchErrorMsg
            /\ UNCHANGED << storeVars, returned >>
  /\ UNCHANGED << flowVars, fetchRequests, runVars >>

Next ==
  \/ BindOk
  \/ \E inUse \in BOOLEAN : BindFail(inUse)
  \/ \E ok \in BOOLEAN : OpenUrlDone(ok)
  \/ \E req \in Requests : Request(req)
  \/ TimerFires
  \/ \E ans \in TokenAnswers : TokenResponse(ans)
  \/ FetchDeveloper
  \/ BootCatch
  \/ \E ok \in BOOLEAN : FetchResponse(ok)

Spec == Init /\ [][Next]_vars

TypeOK ==
  /\ pc \in {"start", "threw", "opening", "awaiting", "exchanging", "returned",
             "aborted", "crashed"}
  /\ server \in {"none", "listening", "closed"}
  /\ timer \in {"unset", "armed", "fired"}
  /\ served \in 0..MaxRequests
  /\ lastReq \in Requests \cup {NoRequest}
  /\ settledBy \in {"none", "callback", "timer"}
  /\ logged \in {"none", "timeout", "security", "cancelled", "failed"}

\* The timer fires when it is due (Node runs due timers while the process
\* lives).  Nothing makes the token endpoint or a browser answer.
LiveSpec == Spec /\ WF_vars(TimerFires)

\* ------------------------------------------ the credential store alone
\* What a run can find at ~/.beltic/credentials.json: nothing, a file that is
\* empty or damaged, or the text an earlier run saved
CorruptFiles ==
  { FileOf(EmptyText), FileOf(GarbageText), FileOf(NullText) }
    \cup { FileOf(t) : t \in BadObjectTexts }

InitFiles ==
  { NoFile } \cup CorruptFiles \cup { FileOf(Stringify(c)) : c \in CredValues }

\* arguments of saveCredentials: its parameter type is the schema's inferred
\* type, in which email is any string
SaveArgs ==
  CredValues \cup
    { [ c EXCEPT !.email = Str(<<"not an email">>) ] :
        c \in { v \in CredValues : ~v.expiresAt.def } }

\* token responses that OAuthTokenResponseSchema accepts; expires_in in
\* seconds, a multiple of the tick
ExpiresIns == { k * (TickMs \div 1000) : k \in 0..4 }

TokenResponses ==
  [ access_token : { Str(<<"tok_1">>) },
    expires_in : { Undef } \cup { Num(n) : n \in ExpiresIns },
    refresh_token : { Undef, Str(<<"refresh_1">>) } ]

StoreInit ==
  /\ pc = "start"
  /\ nodeEnvTest = FALSE
  /\ signupConfigured = FALSE
  /\ expectedState = <<"s1">>
  /\ server = "none"
  /\ callbackAssigned = FALSE
  /\ cbPromise = Pending
  /\ race = Pending
  /\ timer = "unset"
  /\ tokenRequests = <<>>
  /\ served = 0
  /\ lastReq = NoRequest
  /\ lastResp = NoResp
  /\ settledBy = "none"
  /\ error = NoError
  /\ logged = "none"
  /\ result = NoToken
  /\ urlPrinted = FALSE
  /\ browser = "none"
  /\ codeVerifier = <<"v1">>
  /\ authUrlChallenge = Sha256(codeVerifier)
  /\ listenError = "none"
  /\ tokenAnswer = "none"
  /\ boot = "idle"
  /\ fetchRequests = <<>>
  /\ bootError = NoError
  /\ notice = FALSE
  /\ prompted = FALSE
  /\ returned = NoSaved
  /\ startFile = NoFile
  /\ startNow = StartMs
  /\ wizardStep = 0
  /\ installDirTouched = FALSE
  /\ gitignore = NoGitignore
  /\ gitBefore = NoGitignore
  /\ gitReturn = FALSE
  /\ gitCalls = "none"
  /\ credFile \in InitFiles
  /\ fileMode = IF credFile.exists THEN "0600" ELSE "none"
  /\ dirMode \in IF credFile.exists THEN {"0700"} ELSE {"none", "0700"}
  /\ now = StartMs
  /\ lastSaved = NoSaved
  /\ issued = NoIssue
  /\ loaded = NoLoad
  /\ valid = "none"

\* saveCredentials(c)
Save(c) ==
  /\ SaveCredentials(c)
  /\ issued' = NoIssue
  /\ UNCHANGED << flowVars, bootVars, now >>

\* loadCredentials()
Load ==
  /\ loaded' = LoadCredentials(credFile)
  /\ UNCHANGED << flowVars, bootVars, dirMode, credFile, fileMode, now,
                  lastSaved, issued, valid >>

\* hasValidCredentials()
CheckValid ==
  /\ valid' = IF HasValidCredentials(credFile, now) THEN "true" ELSE "false"
  /\ UNCHANGED << flowVars, bootVars, dirMode, credFile, fileMode, now,
                  lastSaved, issued, loaded >>

\* time passes
Tick ==
  /\ now < StartMs + MaxTicks * TickMs
  /\ now' = now + TickMs
  /\ valid' = "none"
  /\ UNCHANGED << flowVars, bootVars, dirMode, credFile, fileMode, lastSaved, issued,
                  loaded >>

\* authenticateWithKya from the token response on: the developer is fetched,
\* the credentials are built and saved
Authenticate(token) ==
  /\ SaveCredentials(BuildCredentials(token, Developer, now))
  /\ issued' = IF token.expires_in.def
                 THEN [ has |-> TRUE, n |-> token.expires_in.n, t |-> now ]
                 ELSE NoIssue
  /\ UNCHANGED << flowVars, bootVars, now >>

\* clearCredentials()
Clear ==
  /\ credFile.exists
  /\ credFile' = NoFile
  /\ fileMode' = "none"
  /\ lastSaved' = NoSaved
  /\ issued' = NoIssue
  /\ loaded' = NoLoad
  /\ valid' = "none"
  /\ UNCHANGED << flowVars, bootVars, dirMode, now >>

\* the mode mkdirSync gives a directory it creates when no mode is passed:
\* 0777 less the umask
DefaultDirMode(umask) == IF umask = "077" THEN "0700" ELSE "0755"

\* ensureCacheDir() of the schema cache: mkdirSync(~/.beltic/schemas,
\* { recursive: true }) creates ~/.beltic when it is missing
EnsureCacheDir(umask) ==
  /\ dirMode = "none"
  /\ dirMode' = DefaultDirMode(umask)
  /\ UNCHANGED << flowVars, bootVars, credFile, fileMode, now, lastSaved,
                  issued, loaded, valid >>

StoreNext ==
  \/ \E c \in SaveArgs : Save(c)
  \/ Load
  \/ CheckValid
  \/ Tick
  \/ \E token \in TokenResponses : Authenticate(token)
  \/ Clear
  \/ \E umask \in {"022", "077"} : EnsureCacheDir(umask)

StoreSpec == StoreInit /\ [][StoreNext]_vars

\* ------------------------------------------------- a run of runWizard
\* credentials an earlier run stored, with the given expiresAt
StoredWith(e) ==
  [ accessToken |-> Str(<<"tok_2">>),
    refreshToken |-> Undef,
    developerId |-> Str(<<"dev_1">>),
    email |-> Str(<<"dev", "@", "example.com">>),
    name |-> Undef,
    expiresAt |-> e ]

\* what the run can find in the credential file: nothing, a damaged file,
\* credentials without expiry, and credentials that expire at 0, at the
\* start of the run, exactly 5 minutes after it and 10 minutes after it
RunFiles ==
  { NoFile, FileOf(GarbageText), FileOf(Stringify(StoredWith(Undef))) }
    \cup { FileOf(Stringify(StoredWith(Num(e)))) :
             e \in { 0, StartMs, StartMs + BufferMs, StartMs + 2 * BufferMs } }

\* the steps of runWizard after authenticateWithKya, in order
WizardSteps ==
  << "ensureBelticCli", "checkExistingFiles", "detectAndAnalyzeCodebase",
     "generateConfiguration", "initializeManifest", "generateFingerprint",
     "generateKeysAndSign", "updateGitignoreFile", "updateReadmeFile" >>

\* the steps that write into the install directory
WritingSteps ==
  { "generateConfiguration", "initializeManifest", "generateFingerprint",
    "generateKeysAndSign", "updateGitignoreFile", "updateReadmeFile" }

DeclinedMsg == << "Authentication is required to use the Beltic wizard." >>

RunInit ==
  /\ pc = "start"
  /\ nodeEnvTest = FALSE
  /\ signupConfigured = FALSE
  /\ expectedState = <<"s1">>
  /\ server = "none"
  /\ callbackAssigned = FALSE
  /\ cbPromise = Pending
  /\ race = Pending
  /\ timer = "unset"
  /\ tokenRequests = <<>>
  /\ served = 0
  /\ lastReq = NoRequest
  /\ lastResp = NoResp
  /\ settledBy = "none"
  /\ error = NoError
  /\ logged = "none"
  /\ result = NoToken
  /\ urlPrinted = FALSE
  /\ browser = "none"
  /\ codeVerifier = <<"v1">>
  /\ authUrlChallenge = Sha256(codeVerifier)
  /\ listenError = "none"
  /\ tokenAnswer = "none"
  /\ boot = "start"
  /\ fetchRequests = <<>>
  /\ bootError = NoError
  /\ notice = FALSE
  /\ prompted = FALSE
  /\ returned = NoSaved
  /\ credFile \in RunFiles
  /\ startFile = credFile
  /\ fileMode = IF credFile.exists THEN "0600" ELSE "none"
  /\ dirMode = IF credFile.exists THEN "0700" ELSE "none"
  /\ now = StartMs
  /\ startNow = now
  /\ wizardStep = 0
  /\ installDirTouched = FALSE
  /\ gitignore = NoGitignore
  /\ gitBefore = NoGitignore
  /\ gitReturn = FALSE
  /\ gitCalls = "none"
  /\ lastSaved = NoSaved
  /\ issued = NoIssue
  /\ loaded = NoLoad
  /\ valid = "none"

\* Variant: the stored credentials are not consulted
CheckStoredAlwaysPrompt(dt) ==
  /\ boot = "start"
  /\ boot' = "prompt"
  /\ prompted' = TRUE
  /\ notice' = FALSE
  /\ now' = now + dt
  /\ UNCHANGED << flowVars, fetchRequests, bootError, returned, startFile,
                  startNow, wizardStep, installDirTouched, gitVars, dirMode,
                  credFile, fileMode, lastSaved, issued, loaded, valid >>

\* authenticateWithKya up to the login prompt: loadCredentials, the first
\* hasValidCredentials, and when that fails the second hasValidCredentials
\* (dt later), the warning and clack.confirm
CheckStored(dt) ==
  /\ boot = "start"
  /\ IF LoadCredentials(credFile).kind = "creds"
          /\ HasValidCredentials(credFile, now)
       THEN /\ boot' = "cached"
            /\ returned' = [ has |-> TRUE,
                             val |-> LoadCredentials(credFile).val ]
            /\ UNCHANGED << prompted, notice, now >>
       ELSE /\ boot' = "prompt"
            /\ prompted' = TRUE
            /\ notice' = (LoadCredentials(credFile).kind = "creds"
                            /\ ~HasValidCredentials(credFile, now + dt))
            /\ now' = now + dt
            /\ UNCHANGED returned
  /\ UNCHANGED << flowVars, fetchRequests, bootError, startFile, startNow,
                  wizardStep, installDirTouched, gitVars, dirMode, credFile,
                  fileMode, lastSaved, issued, loaded, valid >>

\* The user answers the prompt: on "no" or cancel the error is shown and
\* abort() exits; on "yes" performBelticOAuth() is called
PromptAnswer(answer) ==
  /\ boot = "prompt"
  /\ boot' = IF answer = "yes" THEN "oauth" ELSE "aborted"
  /\ bootError' = IF answer = "yes" THEN bootError ELSE DeclinedMsg
  /\ UNCHANGED << flowVars, storeVars, fetchRequests, returned, runVars >>

\* Variant: the steps do not wait for authenticateWithKya
WizardStepUnguarded(ok) ==
  /\ boot \notin {"aborted", "exited"}
  /\ pc \notin {"aborted", "crashed"}
  /\ wizardStep < Len(WizardSteps)
  /\ wizardStep' = wizardStep + 1
  /\ installDirTouched' =
       (installDirTouched \/ WizardSteps[wizardStep + 1] \in WritingSteps)
  /\ boot' = IF ok THEN boot ELSE "exited"
  /\ UNCHANGED << flowVars, storeVars, fetchRequests, bootError, returned,
                  notice, prompted, startFile, startNow, gitVars >>

\* The next step of runWizard runs; when it throws (or exits), the catch
\* block of runWizard ends the process
WizardStep(ok) ==
  /\ boot \in {"cached", "done"}
  /\ wizardStep < Len(WizardSteps)
  /\ wizardStep' = wizardStep + 1
  /\ installDirTouched' =
       (installDirTouched \/ WizardSteps[wizardStep + 1] \in WritingSteps)
  /\ boot' = IF ok THEN boot ELSE "exited"
  /\ UNCHANGED << flowVars, storeVars, fetchRequests, bootError, returned,
                  notice, prompted, startFile, startNow, gitVars >>

RunNext ==
  \/ \E dt \in {0, TickMs} : CheckStored(dt)
  \/ \E answer \in {"yes", "no", "cancel"} : PromptAnswer(answer)
  \/ Next
  \/ \E ok \in BOOLEAN : WizardStep(ok)

RunSpec == RunInit /\ [][RunNext]_vars

\* ------------------------------------------------------- updateGitignore
\* A text is the sequence of its lines (what split('\n') returns: the empty
\* text has one empty line, a text that ends with a newline has an empty
\* last line); a line is a sequence of pieces, " " being whitespace.
GITIGNORE_ENTRIES ==
  << << "#", " Beltic - Private keys and credentials" >>,
     << ".beltic/" >>,
     << "*-private.pem" >>,
     << "*.private.pem" >> >>

BlockHeader == << "#", " Beltic - Private keys and credentials" >>

\* lines a .gitignore can hold
LineVals ==
  { <<>>, << " " >>, << ".beltic/" >>, << " ", ".beltic/", " " >>,
    << "*-private.pem" >>, << "*.private.pem" >>, << "node_modules/" >> }

\* String.prototype.trim
RECURSIVE Trim(_)
Trim(line) ==
  IF line = <<>> THEN line
  ELSE IF Head(line) = " " THEN Trim(Tail(line))
  ELSE IF line[Len(line)] = " " THEN Trim(SubSeq(line, 1, Len(line) - 1))
  ELSE line

StartsWith(line, piece) == line # <<>> /\ Head(line) = piece

\* text + text
Cat(a, b) ==
  SubSeq(a, 1, Len(a) - 1) \o << a[Len(a)] \o b[1] >> \o Tail(b)

\* lines.join('\n')
RECURSIVE Join(_)
Join(ls) ==
  IF ls = <<>> THEN << <<>> >>
  ELSE IF Len(ls) = 1 THEN << ls[1] >>
  ELSE << ls[1] >> \o Join(Tail(ls))

\* the text "\n"
Newline == << <<>>, <<>> >>

EndsWithNewline(text) == Len(text) > 1 /\ text[Len(text)] = <<>>

IsEmptyText(text) == text = << <<>> >>

\* Variant: the comment entry is looked for like the others
LinesToAddNoSkip(text, entries) ==
  SelectSeq(entries,
            LAMBDA e : ~\E i \in 1..Len(text) : Trim(text[i]) = Trim(e))

\* the entries that are no comment and match no trimmed line of the text
LinesToAdd(text, entries) ==
  SelectSeq(entries,
            LAMBDA e : /\ ~StartsWith(e, "#")
                       /\ ~\E i \in 1..Len(text) : Trim(text[i]) = Trim(e))

\* the text updateGitignore writes when there is something to add
NewContent(text, toAdd) ==
  Cat(Cat(IF ~IsEmptyText(text) /\ ~EndsWithNewline(text)
            THEN Cat(text, Newline) ELSE text,
          Join(<< <<>>, BlockHeader >> \o toAdd)),
      Newline)

\* updateGitignore(installDir): its return value and the file it leaves
UpdateGitignore(file) ==
  LET text == IF file.exists THEN file.lines ELSE << <<>> >>
      toAdd == LinesToAdd(text, GITIGNORE_ENTRIES)
  IN  IF toAdd = <<>>
        THEN [ changed |-> FALSE, file |-> file ]
        ELSE [ changed |-> TRUE,
               file |-> [ exists |-> TRUE, lines |-> NewContent(text, toAdd) ] ]

\* texts of up to MaxLines lines
RECURSIVE TextsOfLen(_)
TextsOfLen(n) ==
  IF n = 1 THEN { << l >> : l \in LineVals }
  ELSE { Append(t, l) : t \in TextsOfLen(n - 1), l \in LineVals }

Gitignores ==
  { NoGitignore } \cup
    { [ exists |-> TRUE, lines |-> t ] :
        t \in UNION { TextsOfLen(n) : n \in 1..MaxLines } }

GitInit ==
  /\ pc = "start"
  /\ nodeEnvTest = FALSE
  /\ signupConfigured = FALSE
  /\ expectedState = <<"s1">>
  /\ server = "none"
  /\ callbackAssigned = FALSE
  /\ cbPromise = Pending
  /\ race = Pending
  /\ timer = "unset"
  /\ tokenRequests = <<>>
  /\ served = 0
  /\ lastReq = NoRequest
  /\ lastResp = NoResp
  /\ settledBy = "none"
  /\ error = NoError
  /\ logged = "none"
  /\ result = NoToken
  /\ urlPrinted = FALSE
  /\ browser = "none"
  /\ codeVerifier = <<"v1">>
  /\ authUrlChallenge = Sha256(codeVerifier)
  /\ listenError = "none"
  /\ tokenAnswer = "none"
  /\ boot = "idle"
  /\ fetchRequests = <<>>
  /\ bootError = NoError
  /\ notice = FALSE
  /\ prompted = FALSE
  /\ returned = NoSaved
  /\ startFile = NoFile
  /\ startNow = StartMs
  /\ wizardStep = 0
  /\ installDirTouched = FALSE
  /\ gitignore \in Gitignores
  /\ gitBefore = NoGitignore
  /\ gitReturn = FALSE
  /\ gitCalls = "none"
  /\ dirMode = "none"
  /\ credFile = NoFile
  /\ fileMode = "none"
  /\ now = StartMs
  /\ lastSaved = NoSaved
  /\ issued = NoIssue
  /\ loaded = NoLoad
  /\ valid = "none"

\* a call of updateGitignore
UpdateGitignoreCall ==
  /\ gitBefore' = gitignore
  /\ gitReturn' = UpdateGitignore(gitignore).changed
  /\ gitignore' = UpdateGitignore(gitignore).file
  /\ gitCalls' = IF gitCalls = "none" THEN "one" ELSE "more"
  /\ UNCHANGED << flowVars, storeVars, boot, fetchRequests, bootError,
                  returned, notice, prompted, startFile, startNow, wizardStep,
                  installDirTouched >>

GitNext == UpdateGitignoreCall

GitSpec == GitInit /\ [][GitNext]_vars

\* ------------------------------------------------------------- claims
\* The step handles a /callback request (the request is lastReq')
CallbackStep == served' = served + 1 /\ lastReq'.path = "/callback"

\* The state parameter of r is absent or differs from the expected state
BadState(r) == ~r.state.has \/ r.state.val # expectedState

\* C1: a /callback request whose state is absent or differs from the state
\* generated for the flow never makes the flow Authorized and never starts a
\* token exchange, whatever code or error it carries.
C1_BadStateNeverAuthorizes ==
  [][ (CallbackStep /\ BadState(lastReq'))
        => /\ tokenRequests' = tokenRequests
           /\ (race'.st = "resolved" => race' = race)
           /\ (cbPromise'.st = "resolved" => cbPromise' = cbPromise)
           /\ (pc' = "exchanging" => pc = "exchanging") ]_vars

\* C1 witness: a callback with a code, no error and a wrong state ended the
\* flow with the state-mismatch error and no token request.
C1_Witness ==
  /\ pc = "aborted"
  /\ lastReq.path = "/callback"
  /\ lastReq.code = Some(<<"c1">>)
  /\ lastReq.error = Null
  /\ lastReq.state.has /\ lastReq.state.val # expectedState
  /\ error = StateMismatchMsg
  /\ tokenRequests = <<>>

\* The flow was ended by the rejection of the callback promise, so that
\* lastReq is the request that ended it (the process exits in that step)
EndedByCallback ==
  pc = "aborted" /\ settledBy = "callback" /\ tokenRequests = <<>>

\* C2 (as claimed): a /callback request with an absent or differing state that
\* ends the flow ends it with the 'State mismatch' error, shown in the
\* security-error category.
C2_BadStateIsSecurityError ==
  (EndedByCallback /\ BadState(lastReq))
    => (error = StateMismatchMsg /\ logged = "security")

C4_SettledOnce ==
  [][ /\ Len(tokenRequests') <= 1
      /\ (race.st # "pending" => race' = race)
      /\ (cbPromise.st # "pending" => cbPromise' = cbPromise)
      /\ (settledBy # "none" => settledBy' = settledBy)
      /\ ((race.st # "pending" /\ (served' # served \/ timer' # timer))
            => UNCHANGED << pc, server, tokenRequests, result, error, logged >>)
    ]_vars

\* C4 witness: during the exchange of c1 a second clean callback carrying c2
\* was handled and the timer fired; the exchange is still the one of c1.
C4_Witness ==
  /\ pc = "exchanging"
  /\ timer = "fired"
  /\ served >= 2
  /\ lastReq.path = "/callback"
  /\ lastReq.code = Some(<<"c2">>)
  /\ lastReq.error = Null
  /\ lastReq.state = Some(expectedState)
  /\ race = [st |-> "resolved", val |-> <<"c1">>]
  /\ Len(tokenRequests) = 1 /\ tokenRequests[1].code = <<"c1">>

\* C5: once the listener has started, performOAuthFlow has asked for its
\* close whenever it has returned or aborted; when it throws (bind failure)
\* no listener was started.
C5_ListenerClosedOnExit ==
  /\ (pc \in {"returned", "aborted"} => server = "closed")
  /\ (pc = "threw" => server = "none")

\* C5 witness: the flow aborted on a failed token exchange, server closed.
C5_Witness ==
  /\ pc = "aborted"
  /\ error = TokenHttpErrorMsg
  /\ server = "closed"

\* C6: the token endpoint is contacted at most once per flow and only after
\* an Authorized outcome; a flow whose race was rejected (denial, provider
\* error, state mismatch, missing code, timeout) sends no token request, and
\* a failed token request is not repeated.
C6_ExchangeOnlyAfterAuthorized ==
  /\ Len(tokenRequests) <= 1
  /\ (tokenRequests # <<>> =>
        /\ race.st = "resolved"
        /\ settledBy = "callback"
        /\ tokenRequests[1].code = race.val)
  /\ (race.st = "rejected" => tokenRequests = <<>>)
  /\ (pc \in {"start", "opening", "awaiting", "threw", "crashed"}
        => tokenRequests = <<>>)

\* C6 witness: the user declined, the flow is over, nothing was sent.
C6_Witness ==
  /\ pc = "aborted"
  /\ lastReq.error = Some(<<"access_denied">>)
  /\ error = OAuthErrorMsg(<<"access_denied">>)
  /\ tokenRequests = <<>>

\* C7: when the timer has fired and no callback was delivered, the flow has
\* failed with the timeout error, the listener's close has been requested
\* and no token request was sent.
C7_TimeoutEndsFlow ==
  (timer = "fired" /\ cbPromise.st = "pending")
    => /\ pc = "aborted"
       /\ settledBy = "timer"
       /\ race = [st |-> "rejected", val |-> TimeoutMsg]
       /\ error = TimeoutMsg
       /\ server = "closed"
       /\ tokenRequests = <<>>

\* C7 witness: the timer fired and the listener never served a request.
C7_Witness ==
  /\ timer = "fired"
  /\ served = 0
  /\ cbPromise.st = "pending"
  /\ pc = "aborted"

\* C8 (as claimed): a flow ended by the timer shows the timeout message.
C8_TimeoutShowsTimeoutMessage ==
  (pc = "aborted" /\ settledBy = "timer") => logged = "timeout"

\* C9 (as claimed): when the timer has fired during the token exchange, the
\* flow leaves the exchange and ends Failed.
C9_TimerBoundsExchange ==
  (pc = "exchanging" /\ timer = "fired") ~> (pc = "aborted")

\* C10 (as claimed): a flow ended by a callback with an error parameter is
\* reported as user-declined exactly when the error is 'access_denied'.
C10_DeclinedOnlyForAccessDenied ==
  (EndedByCallback /\ Truthy(lastReq.error))
    => (logged = "cancelled" <=> lastReq.error.val = <<"access_denied">>)

\* C11: every token request carries the verifier generated at the start of
\* the flow, the one whose SHA-256 is the code_challenge of the
\* authorization URL.
C11_OriginalVerifierSent ==
  \A i \in 1..Len(tokenRequests) :
    /\ tokenRequests[i].code_verifier = codeVerifier
    /\ Sha256(tokenRequests[i].code_verifier) = authUrlChallenge

\* C11 witness: a token request has been sent in a flow whose verifier is v2.
C11_Witness ==
  /\ Len(tokenRequests) = 1
  /\ pc = "exchanging"
  /\ codeVerifier = <<"v2">>

\* C12 (as claimed): once performOAuthFlow has returned or failed, the
\* timeout timer is no longer pending.
C12_NothingPendingAfterFlow ==
  pc \in {"returned", "aborted", "threw"} => timer # "armed"

\* C13: when the bind fails with EADDRINUSE the flow fails with an error that
\* names the port and asks to free it, before the URL is printed, before the
\* launcher runs, and without a token request.
C13_PortInUseFailsEarly ==
  listenError = "EADDRINUSE"
    => /\ pc = "threw"
       /\ Includes(error, ToString(OAUTH_PORT))
       /\ Includes(error, FreePortAdvice)
       /\ ~urlPrinted
       /\ browser = "none"
       /\ tokenRequests = <<>>
       /\ boot = "aborted" => bootError = error

\* C13 witness: the port was in use and the bootstrapper has shown the error.
C13_Witness ==
  /\ listenError = "EADDRINUSE"
  /\ boot = "aborted"
  /\ bootError = PortInUseMsg

\* C14: the step in which the launcher finishes, whatever its outcome, finds
\* the URL printed and leaves the flow awaiting the callback with the
\* listener up and the timer armed.
C14_LauncherNeverAborts ==
  [][ (pc = "opening" /\ browser' # browser)
        => /\ urlPrinted
           /\ pc' = "awaiting"
           /\ server' = "listening"
           /\ callbackAssigned'
           /\ timer' = "armed"
    ]_vars

\* C14 witness: the launcher failed and the flow awaits the callback.
C14_Witness ==
  /\ browser = "failed"
  /\ pc = "awaiting"
  /\ urlPrinted

\* C15: a token response without access_token ends the flow without a token,
\* with the listener closed, no identity request and no credential file.
C15_MissingAccessTokenFails ==
  tokenAnswer = "no_access_token"
    => /\ pc = "aborted"
       /\ ~result.has
       /\ server = "closed"
       /\ boot = "oauth"
       /\ fetchRequests = <<>>
       /\ ~credFile.exists
       /\ lastSaved = NoSaved

\* C15 witness: the token endpoint answered without access_token.
C15_Witness ==
  /\ tokenAnswer = "no_access_token"
  /\ error = TokenSchemaErrorMsg
  /\ pc = "aborted"

\* the credentials the file holds, as loadCredentials reads them
Stored == LoadCredentials(credFile)

\* C16 (as claimed): the validity check answers true when no expiresAt is
\* recorded, false when expiresAt <= now + 5 minutes (for every recorded
\* value, 0 included), true otherwise.
C16_ValidityByExpiry ==
  (valid # "none" /\ Stored.kind = "creds")
    => IF ~Stored.val.expiresAt.def
         THEN valid = "true"
         ELSE valid = "true" <=> ~(Stored.val.expiresAt.n <= now + BufferMs)

\* C17 (as claimed): credentials saved from a token response with
\* expires_in = n obtained at time t are judged valid exactly while
\* now < t + (n - 300) seconds.
C17_ValidWhileUnexpired ==
  (issued.has /\ valid # "none")
    => (valid = "true" <=> now < issued.t + issued.n * 1000 - BufferMs)

\* C18: loadCredentials never throws, and answers null for a missing, empty,
\* non-JSON or non-conforming file; the validity check then answers false,
\* which sends the bootstrapper to re-authentication.
C18_LoadNeverThrows ==
  /\ loaded.kind # "threw"
  /\ (loaded.kind # "none" /\ credFile \in CorruptFiles \cup {NoFile})
       => loaded = NullResult
  /\ (valid # "none" /\ credFile \in CorruptFiles \cup {NoFile})
       => valid = "false"

\* C18 witness: a file that is not JSON has been loaded.
C18_Witness ==
  /\ credFile = FileOf(GarbageText)
  /\ loaded = NullResult
  /\ valid = "false"

\* C19 (as claimed): whatever value was saved last, load returns it field
\* for field.
C19_SaveLoadRoundTrips ==
  (lastSaved.has /\ loaded.kind # "none")
    => /\ loaded.kind = "creds"
       /\ loaded.val = lastSaved.val

\* C19 (amended): when the value saved last conforms to
\* StoredCredentialsSchema, load returns it field for field.
C19_ConformingRoundTrips ==
  (lastSaved.has /\ lastSaved.val \in CredValues /\ loaded.kind # "none")
    => /\ loaded.kind = "creds"
       /\ \A i \in 1..Len(CredKeys) :
            loaded.val[CredKeys[i]] = lastSaved.val[CredKeys[i]]

\* C19 witness: a value with absent optional fields and expiresAt 0 was
\* saved over an earlier file and loaded back.
C19_Witness ==
  /\ lastSaved.has
  /\ ~lastSaved.val.refreshToken.def
  /\ lastSaved.val.name = Str(<<>>)
  /\ lastSaved.val.expiresAt = Num(0)
  /\ loaded.kind = "creds"
  /\ fileMode = "0600"

\* C20 (as claimed): after saveCredentials the file is 0600 and its
\* directory 0700.
C20_OwnerOnlyAfterSave ==
  lastSaved.has => (fileMode = "0600" /\ dirMode = "0700")

\* the outcome of the flow and what the orchestrator made of it
outcomeVars == << cbPromise, race, settledBy, pc, server, tokenRequests,
                 error, logged, result >>

\* C25 (as claimed): once the race is settled the listener handles no
\* further /callback request.
C25_NoCallbackAfterOutcome ==
  [][ ~(race.st # "pending" /\ CallbackStep) ]_vars

C27_EveryCallbackDelivered ==
  [][ (CallbackStep /\ race.st = "pending")
        => (race'.st # "pending" /\ pc' # "crashed") ]_vars

\* C28 (as claimed): the timeout message is shown only when the timer ended
\* the flow, the security message only when a callback failed the state
\* validation.
C28_CategoryFollowsEvent ==
  pc = "aborted"
    => /\ logged = "timeout" => settledBy = "timer"
       /\ logged = "security"
            => (EndedByCallback /\ ~Truthy(lastReq.error) /\ BadState(lastReq))

\* C29 (as claimed): a /callback with the expected state, no error and no
\* code is answered 400 and resolves nothing; when it is the first outcome,
\* the flow fails with 'No authorization code in callback URL' and no token
\* request.
C29_NoCodeFails ==
  [][ (CallbackStep /\ ~BadState(lastReq')
         /\ ~Truthy(lastReq'.error) /\ ~Truthy(lastReq'.code))
        => /\ lastResp'.status = 400
           /\ tokenRequests' = tokenRequests
           /\ cbPromise'.st = "resolved" => cbPromise' = cbPromise
           /\ race.st = "pending"
                => /\ race' = [st |-> "rejected", val |-> NoCodeMsg]
                   /\ pc' = "aborted"
                   /\ error' = NoCodeMsg
                   /\ logged' = "failed"
                   /\ tokenRequests' = <<>>
    ]_vars

\* the credentials the run found in the file, as loadCredentials reads them
StartStored == LoadCredentials(startFile)

\* valid at time t: no expiresAt recorded, or expiresAt later than t plus the
\* 5 minute buffer
ValidAt(c, t) == ~c.expiresAt.def \/ ~(c.expiresAt.n <= t + BufferMs)

\* the flow or the bootstrapper has failed
RunFailed == boot = "aborted" \/ pc \in {"aborted", "crashed", "threw"}

\* C21: when the run finds stored credentials that are valid, they are
\* returned with no prompt, no listener, no browser, no request to the token
\* or identity endpoint and no write of the credential file.
C21_ValidCredentialsReused ==
  (boot # "start" /\ StartStored.kind = "creds"
     /\ ValidAt(StartStored.val, startNow))
    => /\ returned = [ has |-> TRUE, val |-> StartStored.val ]
       /\ ~prompted
       /\ ~notice
       /\ pc = "start"
       /\ server = "none"
       /\ browser = "none"
       /\ ~urlPrinted
       /\ tokenRequests = <<>>
       /\ fetchRequests = <<>>
       /\ credFile = startFile
       /\ ~lastSaved.has

\* C21 witness: credentials that expire in 10 minutes were reused and the
\* wizard ran all its steps.
C21_Witness ==
  /\ boot = "cached"
  /\ StartStored.val.expiresAt = Num(StartMs + 2 * BufferMs)
  /\ wizardStep = Len(WizardSteps)

\* C22 (as claimed): the expired notice is shown exactly when the stored
\* credentials are present and not valid; absent or corrupt credentials
\* lead to the prompt without notice; a declined or cancelled prompt aborts
\* with no flow started and the file untouched.
C22_NoticeAndDecline ==
  /\ boot # "start"
       => (notice <=> (StartStored.kind = "creds"
                        /\ ~ValidAt(StartStored.val, startNow)))
  /\ (boot # "start" /\ StartStored.kind # "creds") => (prompted /\ ~notice)
  /\ bootError = DeclinedMsg
       => /\ boot = "aborted"
          /\ pc = "start"
          /\ server = "none"
          /\ credFile = startFile
          /\ ~lastSaved.has

C30_AuthenticationFirst ==
  /\ (wizardStep > 0 \/ installDirTouched) => returned.has
  /\ RunFailed => (wizardStep = 0 /\ ~installDirTouched)

\* C30 witness: after a fresh login every step has run.
C30_Witness ==
  /\ boot = "done"
  /\ lastSaved.has
  /\ wizardStep = Len(WizardSteps)
  /\ installDirTouched

\* every entry that is no comment is a line of the file
AllEntriesPresent(file) ==
  \A k \in 1..Len(GITIGNORE_ENTRIES) :
    StartsWith(GITIGNORE_ENTRIES[k], "#")
      \/ (file.exists
           /\ \E i \in 1..Len(file.lines) :
                file.lines[i] = GITIGNORE_ENTRIES[k])

\* text a is the beginning of text b
TextPrefix(a, b) ==
  /\ Len(a) <= Len(b)
  /\ \A i \in 1..(Len(a) - 1) : a[i] = b[i]
  /\ Len(a[Len(a)]) <= Len(b[Len(a)])
  /\ SubSeq(b[Len(a)], 1, Len(a[Len(a)])) = a[Len(a)]

\* C24: a call that finds every entry present returns false and leaves the
\* file as it is; so does every call after the first; a call that changes
\* the file keeps what was there as the beginning of the new text.
C24_UpdateGitignoreIdempotent ==
  /\ (gitCalls # "none" /\ AllEntriesPresent(gitBefore))
       => (~gitReturn /\ gitignore = gitBefore)
  /\ gitCalls = "more" => (~gitReturn /\ gitignore = gitBefore)
  /\ (gitCalls # "none" /\ ~gitReturn) => gitignore = gitBefore
  /\ (gitCalls # "none" /\ gitReturn)
       => /\ gitignore.exists
          /\ gitBefore.exists
               => TextPrefix(gitBefore.lines, gitignore.lines)
          /\ \A k \in 2..Len(GITIGNORE_ENTRIES) :
               \E i \in 1..Len(gitignore.lines) :
                 Trim(gitignore.lines[i]) = GITIGNORE_ENTRIES[k]

\* C24 witness: a second call found the block the first call had appended to
\* a file that did not end with a newline.
C24_Witness ==
  /\ gitCalls = "more"
  /\ gitignore.lines[1] = << "node_modules/" >>
  /\ gitignore.lines[2] = <<>>
  /\ gitignore.lines[3] = BlockHeader
  /\ Len(gitignore.lines) = 7

====
